---------------------------- MODULE Spec2Model ----------------------------
(***************************************************************************)
(* A model of turbo-chart's TimelineRenderer (src/src/turbo-chart.mts):    *)
(* the scale computed by the constructor, groupAndSortTasks, the row       *)
(* renderer, the axis renderer and formatDuration.                         *)
(*                                                                         *)
(* JavaScript numbers are IEEE-754 doubles.  The scale msToChars is the    *)
(* rounded quotient timelineWidth / totalDuration and timeToChars floors a *)
(* rounded product, so the model carries doubles as sign, class, mantissa  *)
(* bits and exponent and rounds every quotient and product to 53 bits,     *)
(* ties to even.  Values the code keeps in integer-valued variables        *)
(* (columns, widths, millisecond counts) are integers, with three reserved *)
(* integers standing for NaN, Infinity and -Infinity.                      *)
(***************************************************************************)
EXTENDS Integers, Sequences, FiniteSets

(***************************************************************************)
(* Program constants.                                                      *)
(***************************************************************************)
TIMELINE_WIDTH == 100
MAX_LABEL_WIDTH == 45
MIN_BAR_WIDTH == 3
NUM_TIME_MARKERS == 8

(***************************************************************************)
(* JavaScript's non-finite numbers, as reserved integers.                  *)
(***************************************************************************)
NaN == -2147483646
PosInf == 2147483647
NegInf == -2147483647

\* The significand width of a double.
MantissaBits == 53

IsFinite(x) == x \notin {NaN, PosInf, NegInf}

JsNeg(a) ==
    CASE a = NaN -> NaN
      [] a = PosInf -> NegInf
      [] a = NegInf -> PosInf
      [] OTHER -> 0 - a

JsAdd(a, b) ==
    CASE a = NaN \/ b = NaN -> NaN
      [] a = PosInf /\ b = NegInf -> NaN
      [] a = NegInf /\ b = PosInf -> NaN
      [] ~IsFinite(a) -> a
      [] ~IsFinite(b) -> b
      [] OTHER -> a + b

JsSub(a, b) == JsAdd(a, JsNeg(b))

\* a < b, a <= b, a === b: every comparison with NaN is false.
JsLt(a, b) ==
    /\ a # NaN
    /\ b # NaN
    /\ a # b
    /\ \/ a = NegInf
       \/ b = PosInf
       \/ (IsFinite(a) /\ IsFinite(b) /\ a < b)

JsEq(a, b) == a # NaN /\ b # NaN /\ a = b

JsLe(a, b) == JsLt(a, b) \/ JsEq(a, b)

\* Math.min / Math.max of two numbers: NaN if either is NaN.
JsMin2(a, b) == IF a = NaN \/ b = NaN THEN NaN ELSE IF JsLt(b, a) THEN b ELSE a

JsMax2(a, b) == IF a = NaN \/ b = NaN THEN NaN ELSE IF JsLt(a, b) THEN b ELSE a

\* Math.min(...xs) and Math.max(...xs): Infinity and -Infinity of no arguments.
RECURSIVE MathMin(_)
MathMin(xs) == IF xs = <<>> THEN PosInf ELSE JsMin2(Head(xs), MathMin(Tail(xs)))

RECURSIVE MathMax(_)
MathMax(xs) == IF xs = <<>> THEN NegInf ELSE JsMax2(Head(xs), MathMax(Tail(xs)))

\* Array.prototype.includes compares with SameValueZero: NaN is found.
Includes(xs, x) == \E k \in 1..Len(xs) : xs[k] = x

(***************************************************************************)
(* Doubles: [s |-> sign, c |-> "fin" | "inf" | "nan", bits, e], a finite   *)
(* value being s * bits * 2^e with bits the significand, most significant  *)
(* bit first, without leading or trailing zeros (<<>> is zero).            *)
(***************************************************************************)
RECURSIVE IntBits(_)
IntBits(n) == IF n = 0 THEN <<>> ELSE Append(IntBits(n \div 2), n % 2)

RECURSIVE BitsInt(_)
BitsInt(b) ==
    IF Len(b) = 0 THEN 0
    ELSE 2 * BitsInt(SubSeq(b, 1, Len(b) - 1)) + b[Len(b)]

DNaN == [s |-> 1, c |-> "nan", bits |-> <<>>, e |-> 0]

DInf(s) == [s |-> s, c |-> "inf", bits |-> <<>>, e |-> 0]

DZero(s) == [s |-> s, c |-> "fin", bits |-> <<>>, e |-> 0]

\* The finite double s * bits * 2^e, zeros stripped from both ends.
Normalize(s, bits, e) ==
    LET ones == {i \in 1..Len(bits) : bits[i] = 1}
    IN  IF ones = {} THEN DZero(s)
        ELSE LET lo == CHOOSE i \in ones : \A j \in ones : i <= j
                 hi == CHOOSE i \in ones : \A j \in ones : i >= j
             IN  [s |-> s, c |-> "fin", bits |-> SubSeq(bits, lo, hi),
                  e |-> e + (Len(bits) - hi)]

\* Round bits * 2^e (bits starts with 1; sticky: a non-zero remainder lies
\* below the last bit) to MantissaBits bits, to nearest, ties to even.
RoundNearestEven(s, bits, e, sticky) ==
    IF Len(bits) <= MantissaBits THEN Normalize(s, bits, e)
    ELSE LET keep == SubSeq(bits, 1, MantissaBits)
             guard == bits[MantissaBits + 1]
             rest == sticky \/ \E i \in (MantissaBits + 2)..Len(bits) : bits[i] = 1
             e2 == e + (Len(bits) - MantissaBits)
             up == guard = 1 /\ (rest \/ keep[MantissaBits] = 1)
             zeros == {i \in 1..MantissaBits : keep[i] = 0}
         IN  IF ~up THEN Normalize(s, keep, e2)
             ELSE IF zeros = {} THEN Normalize(s, <<1>>, e2 + MantissaBits)
             ELSE LET j == CHOOSE i \in zeros : \A k \in zeros : i >= k
                  IN  Normalize(s, [i \in 1..MantissaBits |->
                                      IF i < j THEN keep[i]
                                      ELSE IF i = j THEN 1 ELSE 0], e2)

\* The significand bits, cut into limbs of LimbBits bits, lowest limb first.
LimbBits == 14

Limbs(bits) ==
    [k \in 1..((Len(bits) + LimbBits - 1) \div LimbBits) |->
        LET hi == Len(bits) - LimbBits * (k - 1)
            lo == IF hi - LimbBits + 1 < 1 THEN 1 ELSE hi - LimbBits + 1
        IN  BitsInt(SubSeq(bits, lo, hi))]

\* The bits of one limb, most significant first.
LimbToBits(v) == [j \in 1..LimbBits |-> (v \div 2^(LimbBits - j)) % 2]

\* The sum of x[i] * y[k - i], i from 1 to n: column k of the long product.
RECURSIVE ColumnSum(_, _, _, _)
ColumnSum(x, y, k, n) ==
    IF n = 0 THEN 0
    ELSE ColumnSum(x, y, k, n - 1)
         + (IF k - n \in 1..Len(y) THEN x[n] * y[k - n] ELSE 0)

RECURSIVE MulCarry(_, _, _, _, _)
MulCarry(x, y, k, carry, acc) ==
    IF k > Len(x) + Len(y) THEN LimbToBits(carry) \o acc
    ELSE LET sum == ColumnSum(x, y, k, Len(x)) + carry
         IN  MulCarry(x, y, k + 1, sum \div 2^LimbBits,
                      LimbToBits(sum % 2^LimbBits) \o acc)

\* The exact product of two significands, by long multiplication.
BitMul(x, y) ==
    IF x = <<>> \/ y = <<>> THEN <<>>
    ELSE MulCarry(Limbs(x), Limbs(y), 2, 0, <<>>)

\* a * b
FMul(a, b) ==
    CASE a.c = "nan" \/ b.c = "nan" -> DNaN
      [] a.c = "inf" /\ b.c = "fin" /\ b.bits = <<>> -> DNaN
      [] b.c = "inf" /\ a.c = "fin" /\ a.bits = <<>> -> DNaN
      [] a.c = "inf" \/ b.c = "inf" -> DInf(a.s * b.s)
      [] OTHER ->
           LET p == Normalize(a.s * b.s, BitMul(a.bits, b.bits), a.e + b.e)
           IN  RoundNearestEven(p.s, p.bits, p.e, FALSE)

\* The quotient bits of r / d after the binary point (0 <= r < d), bit by
\* bit: at most fuel more bits, until the remainder is zero or
\* MantissaBits + 2 significant bits are out.  sig counts the significant
\* bits so far.
RECURSIVE DivFrac(_, _, _, _, _)
DivFrac(r, d, acc, sig, fuel) ==
    IF r = 0 \/ sig >= MantissaBits + 2 \/ fuel = 0
    THEN [bits |-> acc, r |-> r, sig |-> sig]
    ELSE LET one == r >= d - r
             r2 == IF one THEN r - (d - r) ELSE r + r
             sig2 == IF sig > 0 \/ one THEN sig + 1 ELSE 0
         IN  DivFrac(r2, d, Append(acc, IF one THEN 1 ELSE 0), sig2, fuel - 1)

\* n / d for integers n >= 0, d > 0, rounded to a double
DivInts(s, n, d) ==
    LET ip == IntBits(n \div d)
        f1 == DivFrac(n % d, d, <<>>, Len(ip), 32)
        f2 == DivFrac(f1.r, d, f1.bits, f1.sig, 32)
        f3 == DivFrac(f2.r, d, f2.bits, f2.sig, 32)
        all == ip \o f3.bits
        ones == {i \in 1..Len(all) : all[i] = 1}
    IN  IF ones = {} THEN DZero(s)
        ELSE LET lo == CHOOSE i \in ones : \A j \in ones : i <= j
             IN  RoundNearestEven(s, SubSeq(all, lo, Len(all)),
                                  0 - Len(f3.bits), f3.r # 0)

Sign(x) == IF x = NegInf \/ (IsFinite(x) /\ x < 0) THEN -1 ELSE 1

Abs(x) == IF x < 0 THEN 0 - x ELSE x

\* The double of an integer-valued number.
ToDouble(x) ==
    CASE x = NaN -> DNaN
      [] x = PosInf -> DInf(1)
      [] x = NegInf -> DInf(-1)
      [] OTHER -> Normalize(Sign(x), IntBits(Abs(x)), 0)

\* a / b for integer-valued numbers a and b
FDiv(a, b) ==
    CASE a = NaN \/ b = NaN -> DNaN
      [] ~IsFinite(a) /\ ~IsFinite(b) -> DNaN
      [] ~IsFinite(a) -> DInf(Sign(a) * Sign(b))
      [] ~IsFinite(b) -> DZero(Sign(a) * Sign(b))
      [] b = 0 -> IF a = 0 THEN DNaN ELSE DInf(Sign(a))
      [] OTHER -> DivInts(Sign(a) * Sign(b), Abs(a), Abs(b))

\* Math.floor, as an integer-valued number
Floor(a) ==
    CASE a.c = "nan" -> NaN
      [] a.c = "inf" -> IF a.s = 1 THEN PosInf ELSE NegInf
      [] a.e = 0 -> a.s * BitsInt(a.bits)
      [] a.e > 0 -> a.s * BitsInt(a.bits \o [i \in 1..a.e |-> 0])
      [] OTHER ->
           LET n == Len(a.bits) + a.e
               mag == IF n <= 0 THEN 0 ELSE BitsInt(SubSeq(a.bits, 1, n))
           IN  IF a.s = 1 THEN mag ELSE 0 - (mag + 1)

(***************************************************************************)
(* Strings are sequences of one-character strings.  The cells of a chart   *)
(* line that are not text: a bar cell (a no-break space on the package's   *)
(* colour), a separator inside a bar, a dim separator, a no-break space.   *)
(***************************************************************************)
BAR == "bar"
BARSEP == "bar|"
SEP == "|"
NBSP == "nbsp"

Spaces(n) == [k \in 1..n |-> " "]

DigitChar(d) == <<"0", "1", "2", "3", "4", "5", "6", "7", "8", "9">>[d + 1]

RECURSIVE Digits(_)
Digits(n) ==
    IF n < 10 THEN <<DigitChar(n)>>
    ELSE Append(Digits(n \div 10), DigitChar(n % 10))

\* String(x) of an integer-valued number
NumberToString(x) ==
    CASE x = NaN -> <<"N", "a", "N">>
      [] x = PosInf -> <<"I", "n", "f", "i", "n", "i", "t", "y">>
      [] x = NegInf -> <<"-", "I", "n", "f", "i", "n", "i", "t", "y">>
      [] x < 0 -> <<"-">> \o Digits(0 - x)
      [] OTHER -> Digits(x)

\* String(h / 100) for an integer h >= 0: the shortest decimal that reads
\* back as the double nearest to h / 100 is h / 100 itself written without
\* trailing zeros (h has fewer than 16 significant digits).
HundredthsToString(h) ==
    CASE h = NaN -> <<"N", "a", "N">>
      [] h = PosInf -> <<"I", "n", "f", "i", "n", "i", "t", "y">>
      [] h % 100 = 0 -> Digits(h \div 100)
      [] h % 10 = 0 -> Digits(h \div 100) \o <<".", DigitChar((h % 100) \div 10)>>
      [] OTHER -> Digits(h \div 100)
                    \o <<".", DigitChar((h % 100) \div 10), DigitChar(h % 10)>>

\* The seconds rounded to the nearest hundredth.
formatDurationRounded(ms) ==
    IF JsLt(ms, 1000) THEN NumberToString(ms) \o <<"m", "s">>
    ELSE HundredthsToString((ms + 5) \div 10) \o <<"s">>

\* formatDuration(ms)
formatDuration(ms) ==
    IF JsLt(ms, 1000) THEN NumberToString(ms) \o <<"m", "s">>
    ELSE HundredthsToString(Floor(FDiv(ms, 10))) \o <<"s">>

\* String.prototype.padEnd: a target length that is not above the length
\* (or is NaN or negative) leaves the string as it is.
PadEnd(str, n) ==
    IF IsFinite(n) /\ n > Len(str) THEN str \o Spaces(n - Len(str)) ELSE str

(***************************************************************************)
(* The input and the renderer's state.                                     *)
(***************************************************************************)
VARIABLES
    tasks,            \* data.tasks: the task list handed to the constructor and to render
    timelineWidth,    \* the constructor's second argument
    pc,               \* where the program is
    startTime, endTime, totalDuration, msToChars, labelWidth,  \* the renderer's fields
    groupedTasks, markerPositions, rowIdx,                     \* render's locals
    row,              \* renderTaskRow's locals
    axis,             \* renderTimeAxis's locals
    output,           \* the lines written by console.log
    ms, formatted     \* an argument of formatDuration and its result

fields == <<startTime, endTime, totalDuration, msToChars, labelWidth>>

vars == <<tasks, timelineWidth, pc, startTime, endTime, totalDuration, msToChars,
          labelWidth, groupedTasks, markerPositions, rowIdx, row, axis, output,
          ms, formatted>>

\* tasks.map((t) => t.execution.startTime)
TaskStarts(ts) == [k \in 1..Len(ts) |-> ts[k].startTime]

\* tasks.map((t) => t.execution.endTime)
TaskEnds(ts) == [k \in 1..Len(ts) |-> ts[k].endTime]

\* tasks.map((t) => t.taskId.length)
TaskIdLengths(ts) == [k \in 1..Len(ts) |-> Len(ts[k].taskId)]

\* timeToChars(ms), ms a double
timeToChars(d) == Floor(FMul(d, msToChars))

\* i / NUM_TIME_MARKERS
Fraction(i) == FDiv(i, NUM_TIME_MARKERS)

MarkerPosition(i, width) == Floor(FMul(Fraction(i), ToDouble(width)))

getMarkerPositions ==
    LET width == timeToChars(ToDouble(totalDuration))
        positions == [k \in 1..(NUM_TIME_MARKERS + 1) |-> MarkerPosition(k - 1, width)]
    IN  IF Includes(positions, width) THEN positions ELSE Append(positions, width)

Timestamp(i) ==
    LET time == Floor(FMul(Fraction(i), ToDouble(totalDuration)))
    IN  [pos |-> JsAdd(labelWidth, timeToChars(FMul(Fraction(i), ToDouble(totalDuration)))),
         label |-> formatDuration(time)]

getTimestamps == [k \in 1..(NUM_TIME_MARKERS + 1) |-> Timestamp(k - 1)]

BarWidth(taskDuration) == JsMax2(MIN_BAR_WIDTH, timeToChars(ToDouble(taskDuration)))

getTaskBarBounds(task) ==
    LET taskStart == JsSub(task.startTime, startTime)
        taskDuration == JsSub(task.endTime, task.startTime)
        barStart == timeToChars(ToDouble(taskStart))
        barWidth == BarWidth(taskDuration)
    IN  [start |-> barStart, end |-> JsAdd(barStart, barWidth)]

(***************************************************************************)
(* groupAndSortTasks.  A Map keeps its keys in insertion order and         *)
(* Array.prototype.sort is stable: an item goes behind every item whose    *)
(* key is not above its own.                                               *)
(***************************************************************************)
\* A sort that is not stable: the item goes before the items with its key.
SortInsertBeforeEqual(sorted, x) ==
    LET p == Cardinality({k \in 1..Len(sorted) : sorted[k].key < x.key})
    IN  SubSeq(sorted, 1, p) \o <<x>> \o SubSeq(sorted, p + 1, Len(sorted))

SortInsert(sorted, x) ==
    LET p == Cardinality({k \in 1..Len(sorted) : sorted[k].key <= x.key})
    IN  SubSeq(sorted, 1, p) \o <<x>> \o SubSeq(sorted, p + 1, Len(sorted))

RECURSIVE StableSort(_)
StableSort(items) ==
    IF items = <<>> THEN <<>>
    ELSE SortInsert(StableSort(SubSeq(items, 1, Len(items) - 1)), items[Len(items)])

\* The keys of packageGroups, in the order of their first task.
PackageOrder(ts) ==
    LET first == {k \in 1..Len(ts) : \A j \in 1..(k - 1) : ts[j].package # ts[k].package}
        keys == [k \in first |-> ts[k].package]
    IN  [n \in 1..Cardinality(first) |->
            keys[CHOOSE k \in first : Cardinality({j \in first : j <= k}) = n]]

SelectSeq2(ts, pkg) ==
    LET idx == {k \in 1..Len(ts) : ts[k].package = pkg}
    IN  [n \in 1..Cardinality(idx) |->
            ts[CHOOSE k \in idx : Cardinality({j \in idx : j <= k}) = n]]

SortGroup(group) ==
    LET keyed == [k \in 1..Len(group) |-> [key |-> group[k].startTime, val |-> group[k]]]
        sorted == StableSort(keyed)
    IN  [k \in 1..Len(sorted) |-> sorted[k].val]

SortGroups(groups) ==
    LET keyed == [k \in 1..Len(groups) |->
                    [key |-> MathMin(TaskStarts(groups[k])), val |-> groups[k]]]
        sorted == StableSort(keyed)
    IN  [k \in 1..Len(sorted) |-> sorted[k].val]

RECURSIVE Flatten(_)
Flatten(groups) == IF groups = <<>> THEN <<>> ELSE Head(groups) \o Flatten(Tail(groups))

groupAndSortTasks(ts) ==
    LET order == PackageOrder(ts)
        packageGroups == [k \in 1..Len(order) |-> SortGroup(SelectSeq2(ts, order[k]))]
    IN  Flatten(SortGroups(packageGroups))

(***************************************************************************)
(* The inputs: task lists of at most MaxTasks tasks drawn from TaskPool,   *)
(* and the timeline widths handed to the constructor.                      *)
(***************************************************************************)
MaxTasks == 2

Task(id, pkg, start, end) ==
    [taskId |-> id, package |-> pkg, startTime |-> start, endTime |-> end]

\* A task identifier longer than MAX_LABEL_WIDTH.
LongId == [k \in 1..(MAX_LABEL_WIDTH + 1) |-> "x"]

TaskPool ==
    { Task(<<"t", "1">>, "a", 0, 97),
      Task(<<"t", "2">>, "b", 0, 0),
      Task(<<"t", "4">>, "b", 0, 1000),
      Task(<<"t", "5">>, "a", 990, 1000),
      Task(<<"t", "6">>, "c", 480, 600),
      Task(LongId, "b", 0, 1999999999) }

TaskLists == UNION {[1..n -> TaskPool] : n \in 0..MaxTasks}

\* The default width, and one below NUM_TIME_MARKERS.
Widths == {TIMELINE_WIDTH, NUM_TIME_MARKERS \div 2}

(***************************************************************************)
(* The inputs of SortSpec: longer lists of tasks that tie on their start   *)
(* times, within a package and between packages, on a narrow timeline.     *)
(***************************************************************************)
MaxSortTasks == 3

SortPool ==
    { Task(<<"s", "1">>, "a", 5, 9),
      Task(<<"s", "2">>, "a", 5, 7),
      Task(<<"s", "3">>, "a", 0, 9),
      Task(<<"s", "4">>, "b", 5, 6),
      Task(<<"s", "5">>, "b", 0, 2) }

SortTaskLists == UNION {[1..n -> SortPool] : n \in 1..MaxSortTasks}

SortWidth == 2 * NUM_TIME_MARKERS

(***************************************************************************)
(* The inputs of FormatSpec: the arguments of formatDuration.              *)
(***************************************************************************)
MaxMs == 2100

NoRow == [i |-> 0, line |-> <<>>, pendingLabel |-> <<>>, durationLabel |-> <<>>,
          barStart |-> 0, barEnd |-> 0, width |-> 0]

NoAxis == [timestamps |-> <<>>, width |-> 0, markerLine |-> <<>>, labelLine |-> <<>>,
           currentPos |-> 0, tsIndex |-> 0]

Start(lists, widths, at) ==
    /\ tasks \in lists
    /\ timelineWidth \in widths
    /\ pc = at
    /\ startTime = 0 /\ endTime = 0 /\ totalDuration = 0
    /\ msToChars = DZero(1) /\ labelWidth = 0
    /\ groupedTasks = <<>> /\ markerPositions = <<>> /\ rowIdx = 0
    /\ row = NoRow
    /\ axis = NoAxis
    /\ output = <<>>
    /\ formatted = <<>>

Init == Start(TaskLists, Widths, "new") /\ ms = 0

SortInit == Start(SortTaskLists, {SortWidth}, "new") /\ ms = 0

FormatInit == Start({<<>>}, {TIMELINE_WIDTH}, "format") /\ ms \in 0..MaxMs

\* new TimelineRenderer(tasks, timelineWidth)
Construct ==
    /\ pc = "new"
    /\ startTime' = MathMin(TaskStarts(tasks))
    /\ endTime' = MathMax(TaskEnds(tasks))
    /\ totalDuration' = JsSub(endTime', startTime')
    /\ msToChars' = FDiv(timelineWidth, totalDuration')
    /\ labelWidth' = JsMin2(JsAdd(MathMax(TaskIdLengths(tasks)), 2), MAX_LABEL_WIDTH)
    /\ pc' = "constructed"
    /\ UNCHANGED <<tasks, timelineWidth, groupedTasks, markerPositions, rowIdx, row,
                   axis, output, ms, formatted>>

\* render(tasks), up to its loop over the grouped tasks
RenderBegin ==
    /\ pc = "constructed"
    /\ groupedTasks' = groupAndSortTasks(tasks)
    /\ markerPositions' = getMarkerPositions
    /\ rowIdx' = 1
    /\ pc' = "rows"
    /\ UNCHANGED <<tasks, timelineWidth, fields, row, axis, output, ms, formatted>>

\* renderTaskRow(task, markerPositions), up to its loop over the columns
RowBegin ==
    /\ pc = "rows"
    /\ rowIdx <= Len(groupedTasks)
    /\ LET task == groupedTasks[rowIdx]
           bounds == getTaskBarBounds(task)
       IN  row' = [i |-> 0,
                   line |-> PadEnd(task.taskId, labelWidth),
                   pendingLabel |-> <<>>,
                   durationLabel |-> formatDuration(JsSub(task.endTime, task.startTime)),
                   barStart |-> bounds.start,
                   barEnd |-> bounds.end,
                   width |-> timeToChars(ToDouble(totalDuration))]
    /\ pc' = "scan"
    /\ UNCHANGED <<tasks, timelineWidth, fields, groupedTasks, markerPositions, rowIdx,
                   axis, output, ms, formatted>>

\* A scan that never finds a marker in the label's way.
HasConflictNever(i, label) == FALSE

\* A marker falls inside the span of the label put at column i.
HasConflict(i, label) ==
    \E k \in 1..Len(markerPositions) :
        JsLt(i, markerPositions[k]) /\ JsLt(markerPositions[k], i + Len(label))

TimelineCell(isInBar, isMarker) ==
    IF isInBar THEN (IF isMarker THEN BARSEP ELSE BAR)
    ELSE (IF isMarker THEN SEP ELSE NBSP)

\* One iteration of renderTaskRow's loop.  pendingLabel is null or a
\* duration label, which is never empty: <<>> stands for null.
ScanColumn(r) ==
    LET isMarker == Includes(markerPositions, r.i)
        isInBar == JsLe(r.barStart, r.i) /\ JsLt(r.i, r.barEnd)
    IN  IF r.pendingLabel # <<>> /\ ~isMarker /\ ~HasConflict(r.i, r.pendingLabel)
        THEN [r EXCEPT !.line = @ \o r.pendingLabel,
                       !.i = r.i + (Len(r.pendingLabel) - 1) + 1,
                       !.pendingLabel = <<>>]
        ELSE [r EXCEPT !.line = Append(@, TimelineCell(isInBar, isMarker)),
                       !.pendingLabel = IF JsEq(r.i, r.barEnd) /\ @ = <<>>
                                        THEN r.durationLabel ELSE @,
                       !.i = r.i + 1]

RowStep ==
    /\ pc = "scan"
    /\ JsLe(row.i, row.width)
    /\ row' = ScanColumn(row)
    /\ UNCHANGED <<tasks, timelineWidth, pc, fields, groupedTasks, markerPositions,
                   rowIdx, axis, output, ms, formatted>>

\* The flush of the pending label behind the loop.
FlushLabel(r) == r.line \o r.pendingLabel

\* The end of renderTaskRow and console.log of its line
RowEnd ==
    /\ pc = "scan"
    /\ ~JsLe(row.i, row.width)
    /\ output' = Append(output, FlushLabel(row))
    /\ rowIdx' = rowIdx + 1
    /\ pc' = "rows"
    /\ UNCHANGED <<tasks, timelineWidth, fields, groupedTasks, markerPositions, row,
                   axis, ms, formatted>>

\* A repeat that takes any count.
RepeatNeverThrows(n) == FALSE

\* String.prototype.repeat throws a RangeError for a negative or infinite count.
RepeatThrows(n) == n = PosInf \/ n = NegInf \/ (IsFinite(n) /\ n < 0)

Repeat(n) == IF n = NaN THEN <<>> ELSE Spaces(n)

\* renderTimeAxis(), up to its first loop
AxisBegin ==
    /\ pc = "rows"
    /\ rowIdx > Len(groupedTasks)
    /\ IF RepeatThrows(labelWidth)
       THEN pc' = "threw" /\ UNCHANGED axis
       ELSE /\ axis' = [timestamps |-> getTimestamps,
                        width |-> timeToChars(ToDouble(totalDuration)),
                        markerLine |-> Repeat(labelWidth),
                        labelLine |-> Repeat(labelWidth),
                        currentPos |-> labelWidth,
                        tsIndex |-> 0]
            /\ pc' = "axis"
    /\ UNCHANGED <<tasks, timelineWidth, fields, groupedTasks, markerPositions, rowIdx,
                   row, output, ms, formatted>>

AxisLoopCondition(a) ==
    /\ JsLe(a.currentPos, JsAdd(labelWidth, a.width))
    /\ a.tsIndex < Len(a.timestamps)

\* A label needs only its own length of room, not one column more.
PlacesLabelTight(a) ==
    LET ts == a.timestamps[a.tsIndex + 1]
        isLastTimestamp == a.tsIndex = Len(a.timestamps) - 1
        spaceAvailable == IF isLastTimestamp THEN PosInf
                          ELSE JsSub(a.timestamps[a.tsIndex + 2].pos, a.currentPos + 1)
    IN  isLastTimestamp \/ JsLe(Len(ts.label), spaceAvailable)

\* The timestamp at the cursor gets its label.
PlacesLabel(a) ==
    LET ts == a.timestamps[a.tsIndex + 1]
        isLastTimestamp == a.tsIndex = Len(a.timestamps) - 1
        spaceAvailable == IF isLastTimestamp THEN PosInf
                          ELSE JsSub(a.timestamps[a.tsIndex + 2].pos, a.currentPos + 1)
    IN  isLastTimestamp \/ JsLe(Len(ts.label) + 1, spaceAvailable)

\* One iteration of renderTimeAxis's first loop: nothing changes when the
\* cursor is already past the timestamp's column.
AxisIteration(a) ==
    LET ts == a.timestamps[a.tsIndex + 1]
    IN  IF JsLt(a.currentPos, ts.pos)
        THEN [a EXCEPT !.markerLine = Append(@, " "),
                       !.labelLine = Append(@, " "),
                       !.currentPos = @ + 1]
        ELSE IF JsEq(a.currentPos, ts.pos)
        THEN IF PlacesLabel(a)
             THEN [a EXCEPT !.markerLine = Append(@, SEP) \o Spaces(Len(ts.label)),
                            !.labelLine = Append(@, SEP) \o ts.label,
                            !.currentPos = @ + 1 + Len(ts.label),
                            !.tsIndex = @ + 1]
             ELSE [a EXCEPT !.markerLine = Append(@, SEP),
                            !.labelLine = Append(@, SEP),
                            !.currentPos = @ + 1,
                            !.tsIndex = @ + 1]
        ELSE a

AxisStep ==
    /\ pc = "axis"
    /\ AxisLoopCondition(axis)
    /\ axis' = AxisIteration(axis)
    /\ UNCHANGED <<tasks, timelineWidth, pc, fields, groupedTasks, markerPositions,
                   rowIdx, row, output, ms, formatted>>

\* renderTimeAxis's second loop: blanks up to the last column, a separator on it.
FinalGridLine(a, line) ==
    LET last == JsAdd(labelWidth, a.width)
    IN  IF JsLe(a.currentPos, last)
        THEN line \o Spaces(last - a.currentPos) \o <<SEP>>
        ELSE line

\* The end of renderTimeAxis and console.log of its two lines
AxisEnd ==
    /\ pc = "axis"
    /\ ~AxisLoopCondition(axis)
    /\ output' = output \o <<FinalGridLine(axis, axis.markerLine),
                             FinalGridLine(axis, axis.labelLine)>>
    /\ pc' = "done"
    /\ UNCHANGED <<tasks, timelineWidth, fields, groupedTasks, markerPositions, rowIdx,
                   row, axis, ms, formatted>>

Next ==
    \/ Construct
    \/ RenderBegin
    \/ RowBegin
    \/ RowStep
    \/ RowEnd
    \/ AxisBegin
    \/ AxisStep
    \/ AxisEnd

Spec == Init /\ [][Next]_vars

SortSpec == SortInit /\ [][Next]_vars

\* formatDuration(ms)
Format ==
    /\ pc = "format"
    /\ formatted' = formatDuration(ms)
    /\ pc' = "formatted"
    /\ UNCHANGED <<tasks, timelineWidth, fields, groupedTasks, markerPositions, rowIdx,
                   row, axis, output, ms>>

FormatSpec == FormatInit /\ [][Format]_vars

(***************************************************************************)
(* What the claims read off the state.                                     *)
(***************************************************************************)
\* The task list is not empty and its timeline has a positive duration.
PositiveTimeline ==
    /\ tasks # <<>>
    /\ pc \notin {"new", "format", "formatted"}
    /\ IsFinite(totalDuration)
    /\ totalDuration > 0

\* A task row has just been printed: row still holds renderTaskRow's locals.
RowPrinted == pc = "rows" /\ rowIdx > 1

PrintedTask == groupedTasks[rowIdx - 1]

PrintedRow == output[Len(output)]

\* The length of the gutter of the printed row.
Gutter == Len(PadEnd(PrintedTask.taskId, labelWidth))

\* The cell of the printed row at timeline column c.
RowCell(c) == PrintedRow[Gutter + c + 1]

RowColumns == 0..(Len(PrintedRow) - Gutter - 1)

\* The timeline columns of the printed row that hold text.
TextColumns == {c \in RowColumns : RowCell(c) \notin {BAR, BARSEP, SEP, NBSP}}

Markers == {markerPositions[k] : k \in 1..Len(markerPositions)}

\* The duration label stands in the printed row from column c on, and is all its text.
LabelAt(c) ==
    /\ TextColumns = c..(c + Len(row.durationLabel) - 1)
    /\ \A k \in 1..Len(row.durationLabel) : RowCell(c + k - 1) = row.durationLabel[k]

\* C1: in a timeline of positive duration, every printed task row holds the
\* task's duration label, exactly once.
LabelNeverDropped ==
    (PositiveTimeline /\ timelineWidth = TIMELINE_WIDTH /\ RowPrinted)
        => \E c \in RowColumns : LabelAt(c)

\* The columns of a line that hold a bar cell.
BarCells(line) == {k \in 1..Len(line) : line[k] \in {BAR, BARSEP}}

ZeroDuration == tasks # <<>> /\ pc \notin {"new", "format", "formatted"} /\ totalDuration = 0

\* C2: when all tasks start and end at one instant, render does not throw,
\* does not divide by zero unguarded, and prints every task row with a bar
\* of exactly MIN_BAR_WIDTH cells, then the two axis lines.
DegenerateRenderHasMinimumBars ==
    ZeroDuration =>
        /\ pc # "threw"
        /\ pc = "done" =>
              /\ msToChars.c = "fin"
              /\ Len(output) = Len(tasks) + 2
              /\ \A k \in 1..Len(tasks) : Cardinality(BarCells(output[k])) = MIN_BAR_WIDTH

\* The one-to-one maps of 1..n onto itself.
Rearrangements(n) == {f \in [1..n -> 1..n] : \A i, j \in 1..n : f[i] = f[j] => i = j}

EarliestStart(ts, pkg) ==
    CHOOSE m \in {ts[k].startTime : k \in {j \in 1..Len(ts) : ts[j].package = pkg}} :
        \A k \in 1..Len(ts) : ts[k].package = pkg => m <= ts[k].startTime

FirstPlace(ts, pkg) ==
    CHOOSE k \in 1..Len(ts) :
        ts[k].package = pkg /\ \A j \in 1..(k - 1) : ts[j].package # pkg

\* sorted is ts rearranged by f, in the order the claim describes.
OrderedBy(f, ts, sorted) ==
    /\ \A k \in 1..Len(ts) : sorted[k] = ts[f[k]]
    /\ \A i, j, k \in 1..Len(ts) :
          (i < j /\ j < k /\ sorted[i].package = sorted[k].package)
              => sorted[j].package = sorted[i].package
    /\ \A i, j \in 1..Len(ts) :
          (i < j /\ sorted[i].package = sorted[j].package)
              => \/ sorted[i].startTime < sorted[j].startTime
                 \/ (sorted[i].startTime = sorted[j].startTime /\ f[i] < f[j])
    /\ \A i, j \in 1..Len(ts) :
          (i < j /\ sorted[i].package # sorted[j].package)
              => LET mi == EarliestStart(ts, sorted[i].package)
                     mj == EarliestStart(ts, sorted[j].package)
                 IN  \/ mi < mj
                     \/ /\ mi = mj
                        /\ FirstPlace(ts, sorted[i].package) < FirstPlace(ts, sorted[j].package)

\* The line is the row of the task: it starts with the padded identifier
\* and goes on with timeline cells.
IsRowOf(line, task) ==
    LET gutter == PadEnd(task.taskId, labelWidth)
    IN  /\ Len(line) > Len(gutter)
        /\ SubSeq(line, 1, Len(gutter)) = gutter
        /\ line[Len(gutter) + 1] \in {BAR, BARSEP, SEP, NBSP}

\* The line is an axis line: a blank gutter, a separator, no row cells.
IsAxisLine(line) ==
    /\ Len(line) > labelWidth
    /\ \A k \in 1..labelWidth : line[k] = " "
    /\ line[labelWidth + 1] = SEP
    /\ \A k \in 1..Len(line) : line[k] \notin {BAR, BARSEP, NBSP}

\* C3: groupAndSortTasks returns the tasks with each package's tasks together
\* and in ascending start time, the packages in ascending order of their
\* earliest start time, ties in input order (tasks of a package by their
\* place in the input, packages by the place of their first task); render
\* prints the rows in this order, then the axis.
GroupedOrderAndPrintOrder ==
    /\ (pc = "rows" /\ rowIdx = 1) =>
          /\ Len(groupedTasks) = Len(tasks)
          /\ \E f \in Rearrangements(Len(tasks)) : OrderedBy(f, tasks, groupedTasks)
    /\ (pc \in {"rows", "scan", "axis"} /\ Len(output) > 0) =>
          /\ Len(output) <= Len(groupedTasks)
          /\ IsRowOf(output[Len(output)], groupedTasks[Len(output)])
    /\ pc = "done" =>
          /\ Len(output) = Len(groupedTasks) + 2
          /\ \A k \in 1..Len(groupedTasks) : IsRowOf(output[k], groupedTasks[k])
          /\ IsAxisLine(output[Len(output) - 1])
          /\ IsAxisLine(output[Len(output)])

\* Reached: three rows printed with a tie inside a package and a tie between
\* packages, in an order that is not the input's.
SortedWithTies ==
    /\ pc = "done"
    /\ Len(tasks) = 3
    /\ groupedTasks # tasks
    /\ \E i, j \in 1..3 :
          /\ i < j
          /\ groupedTasks[i].package = groupedTasks[j].package
          /\ groupedTasks[i].startTime = groupedTasks[j].startTime
          /\ groupedTasks[i] # groupedTasks[j]
    /\ \E i, j \in 1..3 :
          /\ groupedTasks[i].package # groupedTasks[j].package
          /\ EarliestStart(tasks, groupedTasks[i].package)
               = EarliestStart(tasks, groupedTasks[j].package)

\* C4: in a timeline of positive duration, a duration label placed inside the
\* column scan starts at a column that is no marker and lies behind the bar's
\* end, and no marker falls inside its span, the last marker included; any
\* other label stands right behind the last timeline column.
LabelPlacementAvoidsMarkers ==
    (PositiveTimeline /\ RowPrinted) =>
        \/ TextColumns = {}
        \/ \E c \in RowColumns :
              /\ LabelAt(c)
              /\ IF c <= row.width
                 THEN /\ c \notin Markers
                      /\ c > row.barEnd
                      /\ \A p \in Markers : ~(c <= p /\ p < c + Len(row.durationLabel))
                      /\ c + Len(row.durationLabel) <= row.width
                      /\ \A k \in c..(c + Len(row.durationLabel) - 1) :
                            ~(row.barStart <= k /\ k < row.barEnd)
                 ELSE c = row.width + 1

\* Reached: a label placed inside the scan, further right than the first
\* column behind the bar's end, a marker having been in its way.
LabelDeferredPastMarker ==
    /\ PositiveTimeline
    /\ RowPrinted
    /\ \E c \in RowColumns : LabelAt(c) /\ c <= row.width /\ c > row.barEnd + 1

\* The two lines renderTimeAxis prints.
LabelLine == output[Len(output)]

MarkerLine == output[Len(output) - 1]

AxisText(k) == axis.timestamps[k].label

AxisColumn(k) == axis.timestamps[k].pos

\* The label of timestamp k stands behind its separator.
EmittedAt(k) ==
    /\ Len(LabelLine) >= AxisColumn(k) + 1 + Len(AxisText(k))
    /\ SubSeq(LabelLine, AxisColumn(k) + 2, AxisColumn(k) + 1 + Len(AxisText(k))) = AxisText(k)

\* C5: on the axis label line every timestamp's column holds a separator,
\* the last timestamp's label is written, an earlier timestamp's label is
\* written exactly if the next timestamp's column minus the column behind
\* its separator is at least the label's length plus one, every written
\* label leaves the column before the next separator blank, and the line
\* holds no other text.
AxisLabelsPlacedByGap ==
    (pc = "done" /\ PositiveTimeline /\ timelineWidth = TIMELINE_WIDTH) =>
        LET n == Len(axis.timestamps)
        IN  /\ \A k \in 1..n :
                  /\ LabelLine[AxisColumn(k) + 1] = SEP
                  /\ MarkerLine[AxisColumn(k) + 1] = SEP
            /\ EmittedAt(n)
            /\ \A k \in 1..(n - 1) :
                  EmittedAt(k) <=>
                      AxisColumn(k + 1) - (AxisColumn(k) + 1) >= Len(AxisText(k)) + 1
            /\ \A k \in 1..(n - 1) :
                  EmittedAt(k) => LabelLine[AxisColumn(k + 1)] = " "
            /\ \A c \in 1..Len(LabelLine) :
                  LabelLine[c] \notin {" ", SEP} =>
                      Cardinality({k \in 1..n :
                          /\ EmittedAt(k)
                          /\ c - 1 > AxisColumn(k)
                          /\ c - 1 <= AxisColumn(k) + Len(AxisText(k))}) = 1

\* Reached: an axis at the default width with a written and a skipped label
\* among the timestamps before the last.
AxisLabelSkippedAndWritten ==
    /\ pc = "done"
    /\ PositiveTimeline
    /\ timelineWidth = TIMELINE_WIDTH
    /\ \E j, k \in 1..(Len(axis.timestamps) - 1) : EmittedAt(j) /\ ~EmittedAt(k)

\* The columns of a line that hold a separator.
SeparatorColumns(line) == {k - 1 : k \in {j \in 1..Len(line) : line[j] \in {SEP, BARSEP}}}

\* C6: with a positive duration and no identifier longer than labelWidth,
\* every task row and both axis lines hold a separator at column
\* labelWidth + p for every marker position p and nowhere else, and the
\* columns of the axis timestamps are the row marker columns.
SeparatorsAligned ==
    (/\ pc = "done"
     /\ PositiveTimeline
     /\ \A k \in 1..Len(tasks) : Len(tasks[k].taskId) <= labelWidth) =>
        /\ \A k \in 1..Len(output) :
              SeparatorColumns(output[k]) = {labelWidth + p : p \in Markers}
        /\ {AxisColumn(k) : k \in 1..Len(axis.timestamps)} = {labelWidth + p : p \in Markers}
        /\ AxisColumn(Len(axis.timestamps)) = labelWidth + axis.width

DigitChars == {DigitChar(d) : d \in 0..9}

DigitValue(c) == CHOOSE d \in 0..9 : DigitChar(d) = c

RECURSIVE DecimalValue(_)
DecimalValue(str) ==
    IF Len(str) = 0 THEN 0
    ELSE 10 * DecimalValue(SubSeq(str, 1, Len(str) - 1)) + DigitValue(str[Len(str)])

\* str is a decimal numeral of h hundredths in its shortest form: a whole
\* part without leading zero and at most two decimals, the last one not 0.
IsShortestHundredths(str, h) ==
    LET points == {k \in 1..Len(str) : str[k] = "."}
    IN  /\ Len(str) > 0
        /\ \A k \in 1..Len(str) : str[k] \in DigitChars \cup {"."}
        /\ Len(str) > 1 => str[1] # "0"
        /\ IF points = {}
           THEN 100 * DecimalValue(str) = h
           ELSE \E k \in points :
                  LET whole == SubSeq(str, 1, k - 1)
                      decimals == SubSeq(str, k + 1, Len(str))
                  IN  /\ points = {k}
                      /\ Len(whole) > 0
                      /\ Len(decimals) \in {1, 2}
                      /\ decimals[Len(decimals)] # "0"
                      /\ 100 * DecimalValue(whole)
                           + (IF Len(decimals) = 1 THEN 10 ELSE 1) * DecimalValue(decimals) = h

BarBoundsRespectMinimum ==
    (pc = "scan" /\ tasks # <<>>) =>
        /\ JsLe(0, row.barStart)
        /\ JsLe(MIN_BAR_WIDTH, JsSub(row.barEnd, row.barStart))

\* C9: with an empty task list the program ends in an error, never in a
\* normal return, and prints no chart line.
EmptyListFailsBeforeOutput ==
    (tasks = <<>> /\ pc \notin {"format", "formatted"}) =>
        /\ output = <<>>
        /\ pc \in {"new", "constructed", "rows", "threw"}

\* Reached: the empty list's render has thrown.
EmptyListThrew == tasks = <<>> /\ pc = "threw" /\ output = <<>>

\* C10: in renderTimeAxis's loop, for a positive duration and a width of at
\* least 1, the cursor is never past the column of the timestamp it waits
\* for, so every iteration advances currentPos or tsIndex.
AxisCursorNeverPastTimestamp ==
    (/\ PositiveTimeline
     /\ timelineWidth >= 1
     /\ pc = "axis"
     /\ AxisLoopCondition(axis)) =>
        JsLe(axis.currentPos, axis.timestamps[axis.tsIndex + 1].pos)

\* C11: in a timeline of positive duration every printed task row holds
\* exactly barEnd - barStart bar cells, the bar is not cut off at the right
\* edge of the grid (barEnd <= width + 1), and so every row shows at least
\* MIN_BAR_WIDTH bar cells.
BarNeverCutOff ==
    (PositiveTimeline /\ timelineWidth = TIMELINE_WIDTH /\ RowPrinted) =>
        /\ Cardinality(BarCells(PrintedRow)) = row.barEnd - row.barStart
        /\ row.barEnd <= row.width + 1
        /\ Cardinality(BarCells(PrintedRow)) >= MIN_BAR_WIDTH

=============================================================================
